---- MODULE Spec2Model ----
(***************************************************************************)
(* Model of crown's threaded Renderer (Renderer.h): the producer API that  *)
(* validates resource ids and encodes command records into the submit      *)
(* RenderContext, the render thread that swaps the contexts and decodes    *)
(* the draw context, and the two semaphores that hand frames over.         *)
(*                                                                         *)
(* The command stream is a flat sequence of typed fields <<type, value>>,  *)
(* one per CommandBuffer::write, and is decoded field by field, in the     *)
(* order execute_commands reads them.                                      *)
(***************************************************************************)
EXTENDS Naturals, Integers, Sequences, FiniteSets, TLC

\* ------------------------------------------------------------------ bounds
\* Producer API calls (create_*, update_*, destroy_*, set_*) per run.
MaxCalls == 3
\* frame() calls made by the client between init() and shutdown().
MaxFrames == 1
\* shutdown() calls made by the client.
MaxShutdowns == 2
\* Producer API calls per run under the fair specification.
MaxFairCalls == 2

\* ------------------------------------------------------- program constants
\* Capacities of the id tables (Config.h), scaled down.
CROWN_MAX_VERTEX_BUFFERS == 2
CROWN_MAX_INDEX_BUFFERS == 1
CROWN_MAX_TEXTURES == 1
CROWN_MAX_SHADERS == 2
CROWN_MAX_GPU_PROGRAMS == 1
CROWN_MAX_UNIFORMS == 1
CROWN_MAX_RENDER_TARGETS == 1
\* Size of the uniform name buffer (Config.h), scaled down.
CROWN_MAX_UNIFORM_NAME_LENGTH == 3

\* ------------------------------------------------------------------ inputs
\* One value per operand kind, all different, and different from every id.
Counts == {13}
Offsets == {5}
Rows == {4}
Formats == {"P3"}
Pointers == {7}
Dims == {8}
Heights == {6}
ShaderTypes == {"VERTEX"}
UniformTypes == {"FLOAT_1"}
Nums == {9}
Layers == {0}
\* Uniform names: a stock name, and user names of length MAX - 1, MAX and
\* MAX + 1.
StockName == <<"u", "_">>
ShortName == [i \in 1..(CROWN_MAX_UNIFORM_NAME_LENGTH - 1) |-> "n"]
LongName == [i \in 1..CROWN_MAX_UNIFORM_NAME_LENGTH |-> "n"]
TooLongName == [i \in 1..(CROWN_MAX_UNIFORM_NAME_LENGTH + 1) |-> "n"]
Names == {StockName, ShortName, LongName, TooLongName}

\* Ids a caller can pass: every slot of the table, live or not.
Ids(capacity) == 1..capacity

VARIABLES
    ppc,            \* producer: where the caller's thread is
    caller,         \* producer: which operation called frame()
    cpc,            \* consumer: where render_thread is
    m_render_wait,  \* Semaphore
    m_main_wait,    \* Semaphore
    m_submit,       \* index into m_contexts
    m_draw,         \* index into m_contexts
    m_contexts,     \* RenderContext m_contexts[2]
    tables,         \* the seven id tables
    m_is_initialized,
    m_should_run,
    backend,        \* the *_impl calls made so far, in order
    fault,          \* "none", or the fault that halted the process
    written,        \* fields the producer wrote since its last frame()
    handed,         \* fields the producer had written when it last posted
    last,           \* the producer API call made last: its name, its id (or name) operands
    destroyed,      \* <<table, id>> of every destroy_* call that was encoded
    ncalls, posts, completes, shutdowns

vars == <<ppc, caller, cpc, m_render_wait, m_main_wait, m_submit, m_draw,
          m_contexts, tables, m_is_initialized, m_should_run, backend, fault,
          written, handed, last, destroyed, ncalls, posts, completes, shutdowns>>

\* --------------------------------------------------------------- IdTable
\* IdTable<MAX>: the set of live slots. Renderer never calls IdTable::destroy,
\* so a slot's generation never advances and an id is its slot index.
IdTableHas(t, id) == id \in t

IdTableFull(t, capacity) == Cardinality(t) >= capacity

IdTableLowestFree(t, capacity) ==
    CHOOSE i \in 1..capacity : i \notin t /\ \A j \in 1..capacity : j \notin t => i <= j

\* ------------------------------------------------------- stream encoding
Cmd(c) == <<"CommandType", c>>

END == Cmd("END")

ConstEND == <<"UniformType", "END">>

\* write(name, len): len bytes of the name.
NameBytes(name, len) == [i \in 1..len |-> <<"char", name[i]>>]

\* name_to_stock_uniform(name) == ShaderUniform::COUNT
IsStockUniform(name) == name = StockName

\* UNIFORM_SIZE_TABLE[type] * num
UniformSize(type, num) == 4 * num

EmptyContext == [m_commands |-> <<>>, cread |-> 0,
                 m_constants |-> <<>>, kread |-> 0,
                 m_state |-> [program |-> 0, vb |-> 0, ib |-> 0, texture |-> 0,
                              sampler |-> 0, target |-> 0]]

\* ------------------------------------------------------------ call effects
\* What one producer call does: the fault it raises (or "none"), the id
\* tables after it, the fields it appends to the submit command and constant
\* streams, and the submit context's draw state after it.
Submit == m_contexts[m_submit]

Effect(f, t, cmds, consts, st) ==
    [fault |-> f, tables |-> t, cmds |-> cmds, consts |-> consts, st |-> st]

\* CE_ASSERT failed before anything was done.
Halt(f) == Effect(f, tables, <<>>, <<>>, Submit.m_state)

\* m_submit->m_commands.write(...) of the fields, in order.
Encode(cmds) == Effect("none", tables, cmds, <<>>, Submit.m_state)

\* m_xxx.create(): the lowest free slot made live, or the capacity fault.
IdTableCreate(tname, capacity) ==
    IF IdTableFull(tables[tname], capacity)
    THEN [ok |-> FALSE, id |-> 0, tables |-> tables]
    ELSE LET id == IdTableLowestFree(tables[tname], capacity)
         IN  [ok |-> TRUE, id |-> id,
              tables |-> [tables EXCEPT ![tname] = @ \cup {id}]]

\* ------------------------------------------------------------ producer API
\* Mutant: create_vertex_buffer encodes its record whether or not the table
\* had a free slot.
create_vertex_buffer_unchecked(count, format, vertices) ==
    LET full == IdTableFull(tables.m_vertex_buffers, CROWN_MAX_VERTEX_BUFFERS)
        id == IF full THEN CROWN_MAX_VERTEX_BUFFERS
              ELSE IdTableLowestFree(tables.m_vertex_buffers, CROWN_MAX_VERTEX_BUFFERS)
    IN  Effect("none", [tables EXCEPT !.m_vertex_buffers = @ \cup {id}],
               << Cmd("CREATE_VERTEX_BUFFER"), <<"VertexBufferId", id>>,
                  <<"size_t", count>>, <<"VertexFormat", format>>,
                  <<"ptr", vertices>> >>, <<>>, Submit.m_state)

create_vertex_buffer(count, format, vertices) ==
    LET c == IdTableCreate("m_vertex_buffers", CROWN_MAX_VERTEX_BUFFERS)
        id == c.id
    IN  IF ~c.ok
        THEN Halt("capacity")
        ELSE Effect("none", c.tables,
                    << Cmd("CREATE_VERTEX_BUFFER"), <<"VertexBufferId", id>>,
                       <<"size_t", count>>, <<"VertexFormat", format>>,
                       <<"ptr", vertices>> >>,
                    <<>>, Submit.m_state)

create_dynamic_vertex_buffer(count, format) ==
    LET c == IdTableCreate("m_vertex_buffers", CROWN_MAX_VERTEX_BUFFERS)
        id == c.id
    IN  IF ~c.ok
        THEN Halt("capacity")
        ELSE Effect("none", c.tables,
                    << Cmd("CREATE_DYNAMIC_VERTEX_BUFFER"), <<"VertexBufferId", id>>,
                       <<"size_t", count>>, <<"VertexFormat", format>> >>,
                    <<>>, Submit.m_state)

\* Mutant: update_vertex_buffer writes count before offset.
update_vertex_buffer_swapped(id, offset, count, vertices) ==
    IF ~IdTableHas(tables.m_vertex_buffers, id)
    THEN Halt("precondition")
    ELSE Encode(<< Cmd("UPDATE_VERTEX_BUFFER"), <<"VertexBufferId", id>>,
                   <<"size_t", count>>, <<"size_t", offset>>, <<"ptr", vertices>> >>)

update_vertex_buffer(id, offset, count, vertices) ==
    IF ~IdTableHas(tables.m_vertex_buffers, id)
    THEN Halt("precondition")
    ELSE Encode(<< Cmd("UPDATE_VERTEX_BUFFER"), <<"VertexBufferId", id>>,
                   <<"size_t", offset>>, <<"size_t", count>>, <<"ptr", vertices>> >>)

\* Mutant: destroy_vertex_buffer without its CE_ASSERT.
destroy_vertex_buffer_unchecked(id) ==
    Encode(<< Cmd("DESTROY_VERTEX_BUFFER"), <<"VertexBufferId", id>> >>)

destroy_vertex_buffer(id) ==
    IF ~IdTableHas(tables.m_vertex_buffers, id)
    THEN Halt("precondition")
    ELSE Encode(<< Cmd("DESTROY_VERTEX_BUFFER"), <<"VertexBufferId", id>> >>)

create_index_buffer(count, indices) ==
    LET c == IdTableCreate("m_index_buffers", CROWN_MAX_INDEX_BUFFERS)
        id == c.id
    IN  IF ~c.ok
        THEN Halt("capacity")
        ELSE Effect("none", c.tables,
                    << Cmd("CREATE_INDEX_BUFFER"), <<"IndexBufferId", id>>,
                       <<"size_t", count>>, <<"ptr", indices>> >>,
                    <<>>, Submit.m_state)

create_dynamic_index_buffer(count) ==
    LET c == IdTableCreate("m_index_buffers", CROWN_MAX_INDEX_BUFFERS)
        id == c.id
    IN  IF ~c.ok
        THEN Halt("capacity")
        ELSE Effect("none", c.tables,
                    << Cmd("CREATE_DYNAMIC_INDEX_BUFFER"), <<"IndexBufferId", id>>,
                       <<"size_t", count>> >>,
                    <<>>, Submit.m_state)

update_index_buffer(id, offset, count, indices) ==
    IF ~IdTableHas(tables.m_index_buffers, id)
    THEN Halt("precondition")
    ELSE Encode(<< Cmd("UPDATE_INDEX_BUFFER"), <<"IndexBufferId", id>>,
                   <<"size_t", offset>>, <<"size_t", count>>, <<"ptr", indices>> >>)

destroy_index_buffer(id) ==
    IF ~IdTableHas(tables.m_index_buffers, id)
    THEN Halt("precondition")
    ELSE Encode(<< Cmd("DESTROY_INDEX_BUFFER"), <<"IndexBufferId", id>> >>)

create_texture(width, height, format, data) ==
    LET c == IdTableCreate("m_textures", CROWN_MAX_TEXTURES)
        id == c.id
    IN  IF ~c.ok
        THEN Halt("capacity")
        ELSE Effect("none", c.tables,
                    << Cmd("CREATE_TEXTURE"), <<"TextureId", id>>,
                       <<"uint32_t", width>>, <<"uint32_t", height>>,
                       <<"PixelFormat", format>>, <<"ptr", data>> >>,
                    <<>>, Submit.m_state)

update_texture(id, x, y, width, height, data) ==
    IF ~IdTableHas(tables.m_textures, id)
    THEN Halt("precondition")
    ELSE Encode(<< Cmd("UPDATE_TEXTURE"), <<"TextureId", id>>,
                   <<"uint32_t", x>>, <<"uint32_t", y>>,
                   <<"uint32_t", width>>, <<"uint32_t", height>>,
                   <<"ptr", data>> >>)

destroy_texture(id) ==
    IF ~IdTableHas(tables.m_textures, id)
    THEN Halt("precondition")
    ELSE Encode(<< Cmd("DESTROY_TEXTURE"), <<"TextureId", id>> >>)

create_shader(type, text) ==
    LET c == IdTableCreate("m_shaders", CROWN_MAX_SHADERS)
        id == c.id
    IN  IF ~c.ok
        THEN Halt("capacity")
        ELSE Effect("none", c.tables,
                    << Cmd("CREATE_SHADER"), <<"ShaderId", id>>,
                       <<"ShaderType", type>>, <<"ptr", text>> >>,
                    <<>>, Submit.m_state)

destroy_shader(id) ==
    IF ~IdTableHas(tables.m_shaders, id)
    THEN Halt("precondition")
    ELSE Encode(<< Cmd("DESTROY_SHADER"), <<"ShaderId", id>> >>)

\* vertex and pixel are written as received: no has() on them.
create_gpu_program(vertex, pixel) ==
    LET c == IdTableCreate("m_gpu_programs", CROWN_MAX_GPU_PROGRAMS)
        id == c.id
    IN  IF ~c.ok
        THEN Halt("capacity")
        ELSE Effect("none", c.tables,
                    << Cmd("CREATE_GPU_PROGRAM"), <<"GPUProgramId", id>>,
                       <<"ShaderId", vertex>>, <<"ShaderId", pixel>> >>,
                    <<>>, Submit.m_state)

destroy_gpu_program(id) ==
    IF ~IdTableHas(tables.m_gpu_programs, id)
    THEN Halt("precondition")
    ELSE Encode(<< Cmd("DESTROY_GPU_PROGRAM"), <<"GPUProgramId", id>> >>)

\* Mutant: create_uniform without the check of the name's length.
create_uniform_unchecked(name, type, num) ==
    IF IsStockUniform(name)
    THEN Halt("precondition")
    ELSE LET c == IdTableCreate("m_uniforms", CROWN_MAX_UNIFORMS)
             id == c.id
             len == Len(name)
         IN  IF ~c.ok
             THEN Halt("capacity")
             ELSE Effect("none", c.tables,
                         << Cmd("CREATE_UNIFORM"), <<"UniformId", id>>,
                            <<"size_t", len>> >>
                         \o NameBytes(name, len)
                         \o << <<"UniformType", type>>, <<"uint8_t", num>> >>,
                         <<>>, Submit.m_state)

\* The id is allocated before the name's length is checked.
create_uniform(name, type, num) ==
    IF IsStockUniform(name)
    THEN Halt("precondition")
    ELSE LET c == IdTableCreate("m_uniforms", CROWN_MAX_UNIFORMS)
             id == c.id
             len == Len(name)
         IN  IF ~c.ok
             THEN Halt("capacity")
             ELSE IF ~(len < CROWN_MAX_UNIFORM_NAME_LENGTH)
             THEN Effect("precondition", c.tables, <<>>, <<>>, Submit.m_state)
             ELSE Effect("none", c.tables,
                         << Cmd("CREATE_UNIFORM"), <<"UniformId", id>>,
                            <<"size_t", len>> >>
                         \o NameBytes(name, len)
                         \o << <<"UniformType", type>>, <<"uint8_t", num>> >>,
                         <<>>, Submit.m_state)

destroy_uniform(id) ==
    IF ~IdTableHas(tables.m_uniforms, id)
    THEN Halt("precondition")
    ELSE Encode(<< Cmd("DESTROY_UNIFORM"), <<"UniformId", id>> >>)

\* ---------------------------------------------- producer API: draw state
\* RenderContext::set_*: the current draw's bindings.
SetState(st) == Effect("none", tables, <<>>, <<>>, st)

set_program(id) ==
    IF ~IdTableHas(tables.m_gpu_programs, id)
    THEN Halt("precondition")
    ELSE SetState([Submit.m_state EXCEPT !.program = id])

set_vertex_buffer(id) ==
    IF ~IdTableHas(tables.m_vertex_buffers, id)
    THEN Halt("precondition")
    ELSE SetState([Submit.m_state EXCEPT !.vb = id])

set_index_buffer(id) ==
    IF ~IdTableHas(tables.m_index_buffers, id)
    THEN Halt("precondition")
    ELSE SetState([Submit.m_state EXCEPT !.ib = id])

\* RenderContext::set_uniform appends one constant record.
set_uniform(id, type, value, num) ==
    IF ~IdTableHas(tables.m_uniforms, id)
    THEN Halt("precondition")
    ELSE IF value = 0
    THEN Halt("precondition")
    ELSE Effect("none", tables, <<>>,
                << <<"UniformType", type>>, <<"UniformId", id>>,
                   <<"uint32_t", UniformSize(type, num)>>, <<"data", value>> >>,
                Submit.m_state)

set_texture(sampler_uniform, texture) ==
    IF ~IdTableHas(tables.m_uniforms, sampler_uniform)
    THEN Halt("precondition")
    ELSE IF ~IdTableHas(tables.m_textures, texture)
    THEN Halt("precondition")
    ELSE SetState([Submit.m_state EXCEPT !.sampler = sampler_uniform,
                                         !.texture = texture])

\* Mutant: set_layer_render_target without its CE_ASSERT.
set_layer_render_target_unchecked(layer, id) ==
    SetState([Submit.m_state EXCEPT !.target = id])

set_layer_render_target(layer, id) ==
    IF ~IdTableHas(tables.m_render_targets, id)
    THEN Halt("precondition")
    ELSE SetState([Submit.m_state EXCEPT !.target = id])

\* ------------------------------------------------------------------- Init
\* The state after Renderer::Renderer: both semaphores at 0, both contexts
\* empty, every id table empty, the render thread not started.
\* History of one frame: the fields written to the two streams, the backend
\* calls the producer's calls ask for (calls, uniforms), and the length of the
\* backend log when the frame was handed over (base).
NoStreams == [cmds |-> <<>>, consts |-> <<>>, calls |-> <<>>, uniforms |-> <<>>,
              base |-> 0]

Init ==
    /\ ppc = "start"
    /\ caller = "none"
    /\ cpc = "unstarted"
    /\ m_render_wait = 0
    /\ m_main_wait = 0
    /\ m_submit = 0
    /\ m_draw = 1
    /\ m_contexts = [i \in {0, 1} |-> EmptyContext]
    /\ tables = [m_vertex_buffers |-> {}, m_index_buffers |-> {},
                 m_textures |-> {}, m_shaders |-> {}, m_gpu_programs |-> {},
                 m_uniforms |-> {}, m_render_targets |-> {}]
    /\ m_is_initialized = FALSE
    /\ m_should_run = FALSE
    /\ backend = <<>>
    /\ fault = "none"
    /\ written = NoStreams
    /\ handed = NoStreams
    /\ last = [op |-> "none", args |-> <<>>]
    /\ destroyed = {}
    /\ ncalls = 0
    /\ posts = 0
    /\ completes = 0
    /\ shutdowns = 0

\* ---------------------------------------------------------- producer steps
\* m_submit->m_commands.write(...) / m_submit->m_constants / m_submit state.
SubmitWrite(e) ==
    /\ m_contexts' = [m_contexts EXCEPT
                        ![m_submit].m_commands = @ \o e.cmds,
                        ![m_submit].m_constants = @ \o e.consts,
                        ![m_submit].m_state = e.st]

\* History: what the call wrote, and the backend calls it asks for.
Issue(e, calls, uniforms) ==
    written' = [written EXCEPT !.cmds = @ \o e.cmds,
                               !.consts = @ \o e.consts,
                               !.calls = @ \o calls,
                               !.uniforms = @ \o uniforms]

\* The calls that change only the submit context's state or constants.
SetOps == {"set_program", "set_vertex_buffer", "set_index_buffer", "set_uniform",
           "set_texture", "set_layer_render_target"}

\* The id a create_* call returned: the one it added to its table.
NewIds(e) == UNION {e.tables[t] \ tables[t] : t \in DOMAIN tables}

\* The backend call a successful producer call asks for, from the operands the
\* caller passed (ops) and the id the call returned: X(id, ops...) is
\* X_impl(id, ops...).
ExpectedCalls(op, ops, e) ==
    IF e.fault # "none" \/ op \in SetOps THEN <<>>
    ELSE << <<op \o "_impl">>
            \o (IF NewIds(e) = {} THEN <<>> ELSE <<CHOOSE id \in NewIds(e) : TRUE>>)
            \o ops >>

\* set_uniform(id, type, value, num) asks for update_uniform_impl(id, size, value).
ExpectedUniforms(op, ops, e) ==
    IF e.fault = "none" /\ op = "set_uniform"
    THEN << <<"update_uniform_impl", ops[1], UniformSize(ops[2], ops[4]), ops[3]>> >>
    ELSE <<>>

\* One call of the producer API from the caller's thread, between frames.
Call(op, args, ops, e) ==
    /\ ppc = "idle"
    /\ fault = "none"
    /\ ncalls < MaxCalls
    /\ fault' = e.fault
    /\ tables' = e.tables
    /\ SubmitWrite(e)
    /\ Issue(e, ExpectedCalls(op, ops, e), ExpectedUniforms(op, ops, e))
    /\ last' = [op |-> op, args |-> args]
    /\ destroyed' = IF e.fault = "none" /\ e.cmds # <<>>
                       /\ op \in {"destroy_vertex_buffer", "destroy_index_buffer",
                                  "destroy_texture", "destroy_shader",
                                  "destroy_gpu_program", "destroy_uniform"}
                    THEN destroyed \cup {args[1]}
                    ELSE destroyed
    /\ ncalls' = ncalls + 1
    /\ UNCHANGED <<ppc, caller, cpc, m_render_wait, m_main_wait, m_submit, m_draw,
                   m_is_initialized, m_should_run, backend, handed, posts,
                   completes, shutdowns>>

\* init(): m_should_run = true; m_thread.start(render_thread, this).
InitStart ==
    /\ ppc = "start"
    /\ fault = "none"
    /\ m_should_run' = TRUE
    /\ cpc' = "loop"
    /\ ppc' = "init_write"
    /\ UNCHANGED <<caller, m_render_wait, m_main_wait, m_submit, m_draw, m_contexts,
                   tables, m_is_initialized, backend, fault, written, handed, last,
                   destroyed, ncalls, posts, completes, shutdowns>>

\* Mutant: init() calls frame() without writing INIT_RENDERER.
InitWrite_nowrite ==
    /\ ppc = "init_write"
    /\ fault = "none"
    /\ ppc' = "frame_post"
    /\ caller' = "init"
    /\ UNCHANGED <<cpc, m_render_wait, m_main_wait, m_submit, m_draw, tables,
                   m_is_initialized, m_should_run, backend, fault, handed, last,
                   destroyed, ncalls, posts, completes, shutdowns, m_contexts,
                   written>>

\* init(): m_submit->m_commands.write(INIT_RENDERER); then frame().
InitWrite ==
    /\ ppc = "init_write"
    /\ fault = "none"
    /\ SubmitWrite(Encode(<<Cmd("INIT_RENDERER")>>))
    /\ Issue(Encode(<<Cmd("INIT_RENDERER")>>), << <<"init_impl">> >>, <<>>)
    /\ ppc' = "frame_post"
    /\ caller' = "init"
    /\ UNCHANGED <<cpc, m_render_wait, m_main_wait, m_submit, m_draw, tables,
                   m_is_initialized, m_should_run, backend, fault, handed, last,
                   destroyed, ncalls, posts, completes, shutdowns>>

\* The client calls frame().
FrameCall ==
    /\ ppc = "idle"
    /\ fault = "none"
    /\ posts <= MaxFrames
    /\ ppc' = "frame_post"
    /\ caller' = "frame"
    /\ UNCHANGED <<cpc, m_render_wait, m_main_wait, m_submit, m_draw, m_contexts,
                   tables, m_is_initialized, m_should_run, backend, fault, written,
                   handed, last, destroyed, ncalls, posts, completes, shutdowns>>

\* Mutant: frame() waits without posting m_render_wait.
FramePost_nopost ==
    /\ ppc = "frame_post"
    /\ fault = "none"
    /\ ppc' = "frame_wait"
    /\ posts' = posts + 1
    /\ handed' = [written EXCEPT !.base = Len(backend)]
    /\ written' = NoStreams
    /\ UNCHANGED <<caller, cpc, m_main_wait, m_submit, m_draw, m_contexts, tables,
                   m_is_initialized, m_should_run, backend, fault, last, destroyed,
                   ncalls, completes, shutdowns, m_render_wait>>

\* Mutant: frame() posts m_render_wait twice.
FramePost_twice ==
    /\ ppc = "frame_post"
    /\ fault = "none"
    /\ m_render_wait' = m_render_wait + 2
    /\ ppc' = "frame_wait"
    /\ posts' = posts + 1
    /\ handed' = [written EXCEPT !.base = Len(backend)]
    /\ written' = NoStreams
    /\ UNCHANGED <<caller, cpc, m_main_wait, m_submit, m_draw, m_contexts, tables,
                   m_is_initialized, m_should_run, backend, fault, last, destroyed,
                   ncalls, completes, shutdowns>>

\* frame(): m_render_wait.post().
FramePost ==
    /\ ppc = "frame_post"
    /\ fault = "none"
    /\ m_render_wait' = m_render_wait + 1
    /\ ppc' = "frame_wait"
    /\ posts' = posts + 1
    /\ handed' = [written EXCEPT !.base = Len(backend)]
    /\ written' = NoStreams
    /\ UNCHANGED <<caller, cpc, m_main_wait, m_submit, m_draw, m_contexts, tables,
                   m_is_initialized, m_should_run, backend, fault, last, destroyed,
                   ncalls, completes, shutdowns>>

\* Mutant: frame() returns without waiting for the consumer.
FrameWait_noblock ==
    /\ ppc = "frame_wait"
    /\ fault = "none"
    /\ m_main_wait' = IF m_main_wait > 0 THEN m_main_wait - 1 ELSE 0
    /\ ppc' = IF caller = "shutdown" THEN "join" ELSE "idle"
    /\ UNCHANGED <<caller, cpc, m_render_wait, m_submit, m_draw, m_contexts, tables,
                   m_is_initialized, m_should_run, backend, fault, written, handed,
                   last, destroyed, ncalls, posts, completes, shutdowns>>

\* frame(): m_main_wait.wait(), then the return to init(), shutdown() or the client.
FrameWait ==
    /\ ppc = "frame_wait"
    /\ fault = "none"
    /\ m_main_wait > 0
    /\ m_main_wait' = m_main_wait - 1
    /\ ppc' = IF caller = "shutdown" THEN "join" ELSE "idle"
    /\ UNCHANGED <<caller, cpc, m_render_wait, m_submit, m_draw, m_contexts, tables,
                   m_is_initialized, m_should_run, backend, fault, written, handed,
                   last, destroyed, ncalls, posts, completes, shutdowns>>

\* Mutant: shutdown() without the test of m_should_run.
ShutdownCall_always ==
    /\ ppc \in {"idle", "done"}
    /\ fault = "none"
    /\ shutdowns < MaxShutdowns
    /\ shutdowns' = shutdowns + 1
    /\ SubmitWrite(Encode(<<Cmd("SHUTDOWN_RENDERER")>>))
    /\ Issue(Encode(<<Cmd("SHUTDOWN_RENDERER")>>), << <<"shutdown_impl">> >>, <<>>)
    /\ ppc' = "frame_post"
    /\ caller' = "shutdown"
    /\ UNCHANGED <<cpc, m_render_wait, m_main_wait, m_submit, m_draw, tables,
                   m_is_initialized, m_should_run, backend, fault, handed, last,
                   destroyed, ncalls, posts, completes>>

\* shutdown(): if (m_should_run) write SHUTDOWN_RENDERER, frame(), m_thread.stop();
\* otherwise it returns at once.
ShutdownCall ==
    /\ ppc \in {"idle", "done"}
    /\ fault = "none"
    /\ shutdowns < MaxShutdowns
    /\ shutdowns' = shutdowns + 1
    /\ IF m_should_run
       THEN /\ SubmitWrite(Encode(<<Cmd("SHUTDOWN_RENDERER")>>))
            /\ Issue(Encode(<<Cmd("SHUTDOWN_RENDERER")>>),
                     << <<"shutdown_impl">> >>, <<>>)
            /\ ppc' = "frame_post"
            /\ caller' = "shutdown"
       ELSE UNCHANGED <<m_contexts, written, ppc, caller>>
    /\ UNCHANGED <<cpc, m_render_wait, m_main_wait, m_submit, m_draw, tables,
                   m_is_initialized, m_should_run, backend, fault, handed, last,
                   destroyed, ncalls, posts, completes>>

\* Mutant: shutdown() returns without joining the render thread.
ShutdownJoin_nojoin ==
    /\ ppc = "join"
    /\ fault = "none"
    /\ ppc' = "done"
    /\ UNCHANGED <<caller, cpc, m_render_wait, m_main_wait, m_submit, m_draw,
                   m_contexts, tables, m_is_initialized, m_should_run, backend, fault,
                   written, handed, last, destroyed, ncalls, posts, completes,
                   shutdowns>>

\* shutdown(): m_thread.stop() returns once render_thread has returned.
ShutdownJoin ==
    /\ ppc = "join"
    /\ fault = "none"
    /\ cpc = "exited"
    /\ ppc' = "done"
    /\ UNCHANGED <<caller, cpc, m_render_wait, m_main_wait, m_submit, m_draw,
                   m_contexts, tables, m_is_initialized, m_should_run, backend, fault,
                   written, handed, last, destroyed, ncalls, posts, completes,
                   shutdowns>>

\* ------------------------------------------------------------ the decoder
Draw == m_contexts[m_draw]

\* cmds.read(x) at field p.
Field(cmds, p) == cmds[p][2]

\* One pass of execute_commands' loop body on the record whose opcode is field
\* p: what it is, the backend call it makes, the fields it reads.
Decode(cmds, p) ==
    LET F(i) == Field(cmds, p + i)
        command == IF p <= Len(cmds) THEN F(0) ELSE "past the end"
    IN  CASE command = "INIT_RENDERER" ->
               [kind |-> "init", call |-> <<"init_impl">>, n |-> 1]
          [] command = "SHUTDOWN_RENDERER" ->
               [kind |-> "shutdown", call |-> <<"shutdown_impl">>, n |-> 1]
          [] command = "CREATE_VERTEX_BUFFER" ->
               [kind |-> "impl", n |-> 5,
                call |-> <<"create_vertex_buffer_impl", F(1), F(2), F(3), F(4)>>]
          [] command = "CREATE_DYNAMIC_VERTEX_BUFFER" ->
               [kind |-> "impl", n |-> 4,
                call |-> <<"create_dynamic_vertex_buffer_impl", F(1), F(2), F(3)>>]
          [] command = "UPDATE_VERTEX_BUFFER" ->
               [kind |-> "impl", n |-> 5,
                call |-> <<"update_vertex_buffer_impl", F(1), F(2), F(3), F(4)>>]
          [] command = "DESTROY_VERTEX_BUFFER" ->
               [kind |-> "impl", n |-> 2,
                call |-> <<"destroy_vertex_buffer_impl", F(1)>>]
          [] command = "CREATE_INDEX_BUFFER" ->
               [kind |-> "impl", n |-> 4,
                call |-> <<"create_index_buffer_impl", F(1), F(2), F(3)>>]
          [] command = "CREATE_DYNAMIC_INDEX_BUFFER" ->
               [kind |-> "impl", n |-> 3,
                call |-> <<"create_dynamic_index_buffer_impl", F(1), F(2)>>]
          [] command = "UPDATE_INDEX_BUFFER" ->
               [kind |-> "impl", n |-> 5,
                call |-> <<"update_index_buffer_impl", F(1), F(2), F(3), F(4)>>]
          [] command = "DESTROY_INDEX_BUFFER" ->
               [kind |-> "impl", n |-> 2,
                call |-> <<"destroy_index_buffer_impl", F(1)>>]
          [] command = "CREATE_TEXTURE" ->
               [kind |-> "impl", n |-> 6,
                call |-> <<"create_texture_impl", F(1), F(2), F(3), F(4), F(5)>>]
          [] command = "UPDATE_TEXTURE" ->
               [kind |-> "impl", n |-> 7,
                call |-> <<"update_texture_impl", F(1), F(2), F(3), F(4), F(5), F(6)>>]
          [] command = "DESTROY_TEXTURE" ->
               [kind |-> "impl", n |-> 2,
                call |-> <<"destroy_texture_impl", F(1)>>]
          [] command = "CREATE_SHADER" ->
               [kind |-> "impl", n |-> 4,
                call |-> <<"create_shader_impl", F(1), F(2), F(3)>>]
          [] command = "DESTROY_SHADER" ->
               [kind |-> "impl", n |-> 2,
                call |-> <<"destroy_shader_impl", F(1)>>]
          [] command = "CREATE_GPU_PROGRAM" ->
               [kind |-> "impl", n |-> 4,
                call |-> <<"create_gpu_program_impl", F(1), F(2), F(3)>>]
          [] command = "DESTROY_GPU_PROGRAM" ->
               [kind |-> "impl", n |-> 2,
                call |-> <<"destroy_gpu_program_impl", F(1)>>]
          [] command = "CREATE_UNIFORM" ->
               LET id == F(1)
                   len == F(2)
                   name == [i \in 1..len |-> F(2 + i)]
                   type == F(3 + len)
                   num == F(4 + len)
               IN  [kind |-> "impl", n |-> 5 + len,
                    call |-> <<"create_uniform_impl", id, name, type, num>>]
          [] command = "DESTROY_UNIFORM" ->
               [kind |-> "impl", n |-> 2,
                call |-> <<"destroy_uniform_impl", F(1)>>]
          [] command = "END" ->
               [kind |-> "end", call |-> <<>>, n |-> 1]
          [] OTHER ->
               [kind |-> "unknown", call |-> <<>>, n |-> 1]

\* ---------------------------------------------------------- consumer steps
\* render_thread: while (renderer->m_should_run) render_all(); return 0;
ConsLoop ==
    /\ cpc = "loop"
    /\ fault = "none"
    /\ cpc' = IF m_should_run THEN "wait" ELSE "exited"
    /\ UNCHANGED <<ppc, caller, m_render_wait, m_main_wait, m_submit, m_draw,
                   m_contexts, tables, m_is_initialized, m_should_run, backend, fault,
                   written, handed, last, destroyed, ncalls, posts, completes,
                   shutdowns>>

\* render_all: m_render_wait.wait().
ConsWait ==
    /\ cpc = "wait"
    /\ fault = "none"
    /\ m_render_wait > 0
    /\ m_render_wait' = m_render_wait - 1
    /\ cpc' = "swap"
    /\ UNCHANGED <<ppc, caller, m_main_wait, m_submit, m_draw, m_contexts, tables,
                   m_is_initialized, m_should_run, backend, fault, written, handed,
                   last, destroyed, ncalls, posts, completes, shutdowns>>

\* RenderContext::push(): the END record of each stream.
push(ctx) == [ctx EXCEPT !.m_commands = Append(@, END),
                         !.m_constants = Append(@, ConstEND)]

\* Mutant: swap_contexts exchanges the pointers without m_submit->push().
swap_contexts_nopush ==
    /\ m_contexts' = m_contexts
    /\ m_submit' = m_draw
    /\ m_draw' = m_submit

\* swap_contexts(): m_submit->push(), then the two pointers are exchanged.
swap_contexts ==
    /\ m_contexts' = [m_contexts EXCEPT ![m_submit] = push(@)]
    /\ m_submit' = m_draw
    /\ m_draw' = m_submit

ConsSwap ==
    /\ cpc = "swap"
    /\ fault = "none"
    /\ swap_contexts
    /\ cpc' = "exec"
    /\ UNCHANGED <<ppc, caller, m_render_wait, m_main_wait, tables, m_is_initialized,
                   m_should_run, backend, fault, written, handed, last, destroyed,
                   ncalls, posts, completes, shutdowns>>

\* Mutant: execute_commands skips a record whose opcode it does not know.
execute_commands_skipunknown ==
    LET d == Decode(Draw.m_commands, Draw.cread + 1)
    IN  /\ backend' = IF d.call = <<>> THEN backend ELSE Append(backend, d.call)
        /\ m_is_initialized' = CASE d.kind = "init" -> TRUE
                                 [] d.kind = "shutdown" -> FALSE
                                 [] OTHER -> m_is_initialized
        /\ m_should_run' = IF d.kind = "shutdown" THEN FALSE ELSE m_should_run
        /\ fault' = fault
        /\ IF d.kind = "end"
           THEN /\ m_contexts' = [m_contexts EXCEPT ![m_draw].m_commands = <<>>,
                                                    ![m_draw].cread = 0]
                /\ cpc' = "uniforms"
           ELSE /\ m_contexts' = [m_contexts EXCEPT ![m_draw].cread = @ + d.n]
                /\ cpc' = cpc

\* Mutant: execute_commands without cmds.clear().
execute_commands_noclear ==
    LET d == Decode(Draw.m_commands, Draw.cread + 1)
    IN  /\ backend' = IF d.call = <<>> THEN backend ELSE Append(backend, d.call)
        /\ m_is_initialized' = CASE d.kind = "init" -> TRUE
                                 [] d.kind = "shutdown" -> FALSE
                                 [] OTHER -> m_is_initialized
        /\ m_should_run' = IF d.kind = "shutdown" THEN FALSE ELSE m_should_run
        /\ fault' = IF d.kind = "unknown" THEN "protocol" ELSE fault
        /\ m_contexts' = [m_contexts EXCEPT ![m_draw].cread = @ + d.n]
        /\ cpc' = IF d.kind = "end" THEN "uniforms" ELSE cpc

\* execute_commands(m_draw->m_commands): one pass of the do-while loop, and
\* cmds.clear() after the pass that read END.
execute_commands ==
    LET d == Decode(Draw.m_commands, Draw.cread + 1)
    IN  /\ backend' = IF d.call = <<>> THEN backend ELSE Append(backend, d.call)
        /\ m_is_initialized' = CASE d.kind = "init" -> TRUE
                                 [] d.kind = "shutdown" -> FALSE
                                 [] OTHER -> m_is_initialized
        /\ m_should_run' = IF d.kind = "shutdown" THEN FALSE ELSE m_should_run
        /\ fault' = IF d.kind = "unknown" THEN "protocol" ELSE fault
        /\ IF d.kind = "end"
           THEN /\ m_contexts' = [m_contexts EXCEPT ![m_draw].m_commands = <<>>,
                                                    ![m_draw].cread = 0]
                /\ cpc' = "uniforms"
           ELSE /\ m_contexts' = [m_contexts EXCEPT ![m_draw].cread = @ + d.n]
                /\ cpc' = cpc

ConsExec ==
    /\ cpc = "exec"
    /\ fault = "none"
    /\ execute_commands
    /\ UNCHANGED <<ppc, caller, m_render_wait, m_main_wait, m_submit, m_draw, tables,
                   written, handed, last, destroyed, ncalls, posts, completes,
                   shutdowns>>

\* Mutant: update_uniforms without cbuf.clear().
update_uniforms_noclear ==
    LET cbuf == Draw.m_constants
        p == Draw.kread + 1
        type == Field(cbuf, p)
    IN  IF type # "END"
        THEN /\ backend' = Append(backend, <<"update_uniform_impl",
                                  Field(cbuf, p + 1), Field(cbuf, p + 2),
                                  Field(cbuf, p + 3)>>)
             /\ m_contexts' = [m_contexts EXCEPT ![m_draw].kread = @ + 4]
             /\ cpc' = cpc
        ELSE /\ backend' = backend
             /\ m_contexts' = [m_contexts EXCEPT ![m_draw].kread = 0]
             /\ cpc' = "render"

\* Mutant: update_uniforms applies the first record only.
update_uniforms_first ==
    LET cbuf == Draw.m_constants
        p == Draw.kread + 1
        type == Field(cbuf, p)
    IN  IF type # "END" /\ Draw.kread = 0
        THEN /\ backend' = Append(backend, <<"update_uniform_impl",
                                  Field(cbuf, p + 1), Field(cbuf, p + 2),
                                  Field(cbuf, p + 3)>>)
             /\ m_contexts' = [m_contexts EXCEPT ![m_draw].kread = @ + 4]
             /\ cpc' = cpc
        ELSE /\ backend' = backend
             /\ m_contexts' = [m_contexts EXCEPT ![m_draw].m_constants = <<>>,
                                                 ![m_draw].kread = 0]
             /\ cpc' = "render"

\* update_uniforms(m_draw->m_constants): one pass of the while loop, and
\* cbuf.clear() after the END tag.
update_uniforms ==
    LET cbuf == Draw.m_constants
        p == Draw.kread + 1
        type == Field(cbuf, p)
    IN  IF type # "END"
        THEN /\ backend' = Append(backend, <<"update_uniform_impl",
                                  Field(cbuf, p + 1), Field(cbuf, p + 2),
                                  Field(cbuf, p + 3)>>)
             /\ m_contexts' = [m_contexts EXCEPT ![m_draw].kread = @ + 4]
             /\ cpc' = cpc
        ELSE /\ backend' = backend
             /\ m_contexts' = [m_contexts EXCEPT ![m_draw].m_constants = <<>>,
                                                 ![m_draw].kread = 0]
             /\ cpc' = "render"

ConsUniforms ==
    /\ cpc = "uniforms"
    /\ fault = "none"
    /\ update_uniforms
    /\ UNCHANGED <<ppc, caller, m_render_wait, m_main_wait, m_submit, m_draw, tables,
                   m_is_initialized, m_should_run, fault, written, handed, last,
                   destroyed, ncalls, posts, completes, shutdowns>>

\* Mutant: render_all calls render_impl without testing m_is_initialized.
ConsRender_always ==
    /\ cpc = "render"
    /\ fault = "none"
    /\ backend' = Append(backend, <<"render_impl">>)
    /\ cpc' = "post"
    /\ UNCHANGED <<ppc, caller, m_render_wait, m_main_wait, m_submit, m_draw,
                   m_contexts, tables, m_is_initialized, m_should_run, fault, written,
                   handed, last, destroyed, ncalls, posts, completes, shutdowns>>

\* render_all: if (m_is_initialized) render_impl();
ConsRender ==
    /\ cpc = "render"
    /\ fault = "none"
    /\ backend' = IF m_is_initialized THEN Append(backend, <<"render_impl">>)
                                      ELSE backend
    /\ cpc' = "post"
    /\ UNCHANGED <<ppc, caller, m_render_wait, m_main_wait, m_submit, m_draw,
                   m_contexts, tables, m_is_initialized, m_should_run, fault, written,
                   handed, last, destroyed, ncalls, posts, completes, shutdowns>>

\* Mutant: render_all posts m_main_wait twice.
ConsPost_twice ==
    /\ cpc = "post"
    /\ fault = "none"
    /\ m_main_wait' = m_main_wait + 2
    /\ completes' = completes + 1
    /\ cpc' = "loop"
    /\ UNCHANGED <<ppc, caller, m_render_wait, m_submit, m_draw, m_contexts, tables,
                   m_is_initialized, m_should_run, backend, fault, written, handed,
                   last, destroyed, ncalls, posts, shutdowns>>

\* render_all: m_main_wait.post().
ConsPost ==
    /\ cpc = "post"
    /\ fault = "none"
    /\ m_main_wait' = m_main_wait + 1
    /\ completes' = completes + 1
    /\ cpc' = "loop"
    /\ UNCHANGED <<ppc, caller, m_render_wait, m_submit, m_draw, m_contexts, tables,
                   m_is_initialized, m_should_run, backend, fault, written, handed,
                   last, destroyed, ncalls, posts, shutdowns>>

\* ------------------------------------------------------- the client's calls
T(tname, id) == <<tname, id>>

CallVertexBuffer ==
    \/ \E c \in Counts, f \in Formats, v \in Pointers :
         Call("create_vertex_buffer", <<>>, <<c, f, v>>, create_vertex_buffer(c, f, v))
    \/ \E c \in Counts, f \in Formats :
         Call("create_dynamic_vertex_buffer", <<>>, <<c, f>>,
              create_dynamic_vertex_buffer(c, f))
    \/ \E id \in Ids(CROWN_MAX_VERTEX_BUFFERS), o \in Offsets, c \in Counts, v \in Pointers :
         Call("update_vertex_buffer", <<T("m_vertex_buffers", id)>>, <<id, o, c, v>>,
              update_vertex_buffer(id, o, c, v))
    \/ \E id \in Ids(CROWN_MAX_VERTEX_BUFFERS) :
         Call("destroy_vertex_buffer", <<T("m_vertex_buffers", id)>>, <<id>>,
              destroy_vertex_buffer(id))

CallIndexBuffer ==
    \/ \E c \in Counts, v \in Pointers :
         Call("create_index_buffer", <<>>, <<c, v>>, create_index_buffer(c, v))
    \/ \E c \in Counts :
         Call("create_dynamic_index_buffer", <<>>, <<c>>,
              create_dynamic_index_buffer(c))
    \/ \E id \in Ids(CROWN_MAX_INDEX_BUFFERS), o \in Offsets, c \in Counts, v \in Pointers :
         Call("update_index_buffer", <<T("m_index_buffers", id)>>, <<id, o, c, v>>,
              update_index_buffer(id, o, c, v))
    \/ \E id \in Ids(CROWN_MAX_INDEX_BUFFERS) :
         Call("destroy_index_buffer", <<T("m_index_buffers", id)>>, <<id>>,
              destroy_index_buffer(id))

CallTexture ==
    \/ \E w \in Dims, h \in Heights, f \in Formats, d \in Pointers :
         Call("create_texture", <<>>, <<w, h, f, d>>, create_texture(w, h, f, d))
    \/ \E id \in Ids(CROWN_MAX_TEXTURES), x \in Offsets, y \in Rows,
          w \in Dims, h \in Heights, d \in Pointers :
         Call("update_texture", <<T("m_textures", id)>>, <<id, x, y, w, h, d>>,
              update_texture(id, x, y, w, h, d))
    \/ \E id \in Ids(CROWN_MAX_TEXTURES) :
         Call("destroy_texture", <<T("m_textures", id)>>, <<id>>,
              destroy_texture(id))

CallShader ==
    \/ \E t \in ShaderTypes, text \in Pointers :
         Call("create_shader", <<>>, <<t, text>>, create_shader(t, text))
    \/ \E id \in Ids(CROWN_MAX_SHADERS) :
         Call("destroy_shader", <<T("m_shaders", id)>>, <<id>>, destroy_shader(id))

CallGpuProgram ==
    \/ \E v \in Ids(CROWN_MAX_SHADERS), p \in Ids(CROWN_MAX_SHADERS) :
         Call("create_gpu_program", <<T("m_shaders", v), T("m_shaders", p)>>, <<v, p>>,
              create_gpu_program(v, p))
    \/ \E id \in Ids(CROWN_MAX_GPU_PROGRAMS) :
         Call("destroy_gpu_program", <<T("m_gpu_programs", id)>>, <<id>>,
              destroy_gpu_program(id))

CallUniform ==
    \/ \E name \in Names, t \in UniformTypes, n \in Nums :
         Call("create_uniform", <<T("name", name)>>, <<name, t, n>>,
              create_uniform(name, t, n))
    \/ \E id \in Ids(CROWN_MAX_UNIFORMS) :
         Call("destroy_uniform", <<T("m_uniforms", id)>>, <<id>>,
              destroy_uniform(id))

CallSet ==
    \/ \E id \in Ids(CROWN_MAX_GPU_PROGRAMS) :
         Call("set_program", <<T("m_gpu_programs", id)>>, <<id>>, set_program(id))
    \/ \E id \in Ids(CROWN_MAX_VERTEX_BUFFERS) :
         Call("set_vertex_buffer", <<T("m_vertex_buffers", id)>>, <<id>>,
              set_vertex_buffer(id))
    \/ \E id \in Ids(CROWN_MAX_INDEX_BUFFERS) :
         Call("set_index_buffer", <<T("m_index_buffers", id)>>, <<id>>,
              set_index_buffer(id))
    \/ \E id \in Ids(CROWN_MAX_UNIFORMS), t \in UniformTypes,
          value \in Pointers \cup {0}, n \in Nums :
         Call("set_uniform", <<T("m_uniforms", id)>>, <<id, t, value, n>>,
              set_uniform(id, t, value, n))
    \/ \E s \in Ids(CROWN_MAX_UNIFORMS), t \in Ids(CROWN_MAX_TEXTURES) :
         Call("set_texture", <<T("m_uniforms", s), T("m_textures", t)>>, <<s, t>>,
              set_texture(s, t))
    \/ \E l \in Layers, id \in Ids(CROWN_MAX_RENDER_TARGETS) :
         Call("set_layer_render_target", <<T("m_render_targets", id)>>, <<l, id>>,
              set_layer_render_target(l, id))

Producer ==
    \/ InitStart
    \/ InitWrite
    \/ CallVertexBuffer
    \/ CallIndexBuffer
    \/ CallTexture
    \/ CallShader
    \/ CallGpuProgram
    \/ CallUniform
    \/ CallSet
    \/ FrameCall
    \/ FramePost
    \/ FrameWait
    \/ ShutdownCall
    \/ ShutdownJoin

Consumer ==
    \/ ConsLoop
    \/ ConsWait
    \/ ConsSwap
    \/ ConsExec
    \/ ConsUniforms
    \/ ConsRender
    \/ ConsPost

Next == Producer \/ Consumer

Spec == Init /\ [][Next]_vars

\* The render thread is an OS thread of its own and is scheduled; the caller's
\* thread runs whatever it has begun (init, frame, shutdown) to its end.
ProducerRuns == InitWrite \/ FramePost \/ FrameWait \/ ShutdownJoin

\* The same steps, with fewer producer API calls per run.
FairCall ==
    /\ ncalls < MaxFairCalls
    /\ (CallVertexBuffer \/ CallIndexBuffer \/ CallTexture \/ CallShader
          \/ CallGpuProgram \/ CallUniform \/ CallSet)

FairNext ==
    \/ FairCall
    \/ InitStart
    \/ InitWrite
    \/ FrameCall
    \/ FramePost
    \/ FrameWait
    \/ ShutdownCall
    \/ ShutdownJoin
    \/ Consumer

FairSpec == Init /\ [][FairNext]_vars /\ WF_vars(Consumer) /\ WF_vars(ProducerRuns)

\* ------------------------------------------------------------------ claims
\* Where each thread is with respect to the frame contexts.
ConsumerInContexts == cpc \in {"swap", "exec", "uniforms", "render", "post"}

ProducerWrites == ppc \in {"init_write", "idle"}

Count(log, call) == Cardinality({i \in 1..Len(log) : log[i] = call})

\* C1: the two threads never work on the frame contexts at the same time:
\* while the consumer is between its wait and its post (swap_contexts,
\* execute_commands, update_uniforms, render_impl) the producer is blocked in
\* frame() on m_main_wait, and while the producer is where it writes to the
\* submit context the consumer has not passed m_render_wait.wait() and cannot
\* pass it (the semaphore is 0).
C1_NoConcurrentAccess ==
    /\ ConsumerInContexts => (ppc = "frame_wait" /\ m_main_wait = 0)
    /\ ProducerWrites => (cpc \in {"loop", "wait"} /\ m_render_wait = 0)

C1_Witness ==
    /\ cpc = "exec"
    /\ Draw.cread >= 1
    /\ ncalls >= 1
    /\ ppc = "frame_wait"

\* C2: when init() has returned the render thread is started, init_impl has
\* been invoked exactly once and m_is_initialized is true.
InitReturned == ppc = "idle" /\ caller = "init"

C2_InitHandshake ==
    InitReturned =>
        /\ cpc \notin {"unstarted", "exited"}
        /\ Count(backend, <<"init_impl">>) = 1
        /\ m_is_initialized

C2_Witness ==
    /\ InitReturned
    /\ m_is_initialized
    /\ backend = << <<"init_impl">>, <<"render_impl">> >>
    /\ completes = 1

\* What execute_commands dispatches for a stream, record by record.
RECURSIVE Dispatched(_, _)
Dispatched(cmds, p) ==
    IF p > Len(cmds) THEN <<>>
    ELSE LET d == Decode(cmds, p)
         IN  (IF d.call = <<>> THEN <<>> ELSE <<d.call>>) \o Dispatched(cmds, p + d.n)

\* C3: a shutdown() begun after init() returns, and when it has returned
\* shutdown_impl has run exactly once, the dispatcher is not ready,
\* m_should_run is false, the render thread has left its loop, and the
\* commands of the shutdown frame were dispatched, in order, up to and
\* ending with shutdown_impl.
ShutdownBegun == caller = "shutdown" /\ ppc = "frame_post"

ShutdownReturned == ppc = "done"

C3_AtReturn ==
    ShutdownReturned =>
        /\ Count(backend, <<"shutdown_impl">>) = 1
        /\ ~m_is_initialized
        /\ ~m_should_run
        /\ cpc = "exited"
        /\ LET frame == Dispatched(handed.cmds, 1)
               n == Len(frame)
           IN  \E k \in 1..Len(backend) :
                  /\ backend[k] = <<"shutdown_impl">>
                  /\ k >= n
                  /\ SubSeq(backend, k - n + 1, k) = frame

C3_Shutdown == (ShutdownBegun ~> ShutdownReturned) /\ []C3_AtReturn

C3_Witness ==
    /\ ShutdownReturned
    /\ Len(handed.cmds) > 1
    /\ Count(backend, <<"shutdown_impl">>) = 1

\* C4: every frame() that is begun returns, and the two threads are never
\* both blocked, the producer on m_main_wait and the consumer on m_render_wait.
BothBlocked ==
    /\ ppc = "frame_wait" /\ m_main_wait = 0
    /\ cpc = "wait" /\ m_render_wait = 0

C4_NoDeadlock ==
    /\ (ppc = "frame_post") ~> (ppc \in {"idle", "join"})
    /\ []~BothBlocked

C4_Witness == ppc = "idle" /\ caller = "frame" /\ completes >= 2 /\ ncalls >= 1

\* The id table an id field of the stream belongs to.
IdTypes == {"VertexBufferId", "IndexBufferId", "TextureId", "ShaderId",
            "GPUProgramId", "UniformId"}

IdTableOf(type) ==
    CASE type = "VertexBufferId" -> "m_vertex_buffers"
      [] type = "IndexBufferId" -> "m_index_buffers"
      [] type = "TextureId" -> "m_textures"
      [] type = "ShaderId" -> "m_shaders"
      [] type = "GPUProgramId" -> "m_gpu_programs"
      [] type = "UniformId" -> "m_uniforms"

\* The fields a producer call appended to the submit command stream in a step.
IsCall == ncalls' = ncalls + 1

AppendedCmds ==
    SubSeq(m_contexts'[m_submit].m_commands, Len(Submit.m_commands) + 1,
           Len(m_contexts'[m_submit].m_commands))

\* C5: every resource id a producer call writes to the submit command stream
\* is live in its id table when the call returns.
C5_OnlyLiveIdsEncoded ==
    [][IsCall =>
         \A i \in 1..Len(AppendedCmds) :
            AppendedCmds[i][1] \in IdTypes =>
               IdTableHas(tables'[IdTableOf(AppendedCmds[i][1])], AppendedCmds[i][2])]_vars

\* C6: an update_*, destroy_* or set_* call with an id that is not in its id
\* table raises the precondition fault and leaves both streams of the submit
\* context, the id tables and the backend untouched.
ValidatingOps ==
    {"update_vertex_buffer", "destroy_vertex_buffer", "update_index_buffer",
     "destroy_index_buffer", "update_texture", "destroy_texture", "destroy_shader",
     "destroy_gpu_program", "destroy_uniform", "set_program", "set_vertex_buffer",
     "set_index_buffer", "set_uniform", "set_texture", "set_layer_render_target"}

UnknownIdCall ==
    /\ IsCall
    /\ last'.op \in ValidatingOps
    /\ \E i \in 1..Len(last'.args) :
          ~IdTableHas(tables[last'.args[i][1]], last'.args[i][2])

C6_UnknownIdFaults ==
    [][UnknownIdCall =>
         /\ fault' = "precondition"
         /\ m_contexts' = m_contexts
         /\ tables' = tables
         /\ backend' = backend]_vars

C6_Witness ==
    /\ fault = "precondition"
    /\ last.op = "destroy_vertex_buffer"
    /\ tables.m_vertex_buffers = {}
    /\ Submit.m_commands = <<>>

\* C7: an id that was destroyed through the producer API is no longer live.
C7_DestroyedIdNotLive ==
    \A d \in destroyed : ~IdTableHas(tables[d[1]], d[2])

\* The id table and the capacity behind each create_* call.
CreateOps == {"create_vertex_buffer", "create_dynamic_vertex_buffer",
              "create_index_buffer", "create_dynamic_index_buffer",
              "create_texture", "create_shader", "create_gpu_program",
              "create_uniform"}

CreateTable(op) ==
    CASE op \in {"create_vertex_buffer", "create_dynamic_vertex_buffer"} -> "m_vertex_buffers"
      [] op \in {"create_index_buffer", "create_dynamic_index_buffer"} -> "m_index_buffers"
      [] op = "create_texture" -> "m_textures"
      [] op = "create_shader" -> "m_shaders"
      [] op = "create_gpu_program" -> "m_gpu_programs"
      [] op = "create_uniform" -> "m_uniforms"

Capacity(tname) ==
    CASE tname = "m_vertex_buffers" -> CROWN_MAX_VERTEX_BUFFERS
      [] tname = "m_index_buffers" -> CROWN_MAX_INDEX_BUFFERS
      [] tname = "m_textures" -> CROWN_MAX_TEXTURES
      [] tname = "m_shaders" -> CROWN_MAX_SHADERS
      [] tname = "m_gpu_programs" -> CROWN_MAX_GPU_PROGRAMS
      [] tname = "m_uniforms" -> CROWN_MAX_UNIFORMS
      [] tname = "m_render_targets" -> CROWN_MAX_RENDER_TARGETS

TableNames == {"m_vertex_buffers", "m_index_buffers", "m_textures", "m_shaders",
               "m_gpu_programs", "m_uniforms", "m_render_targets"}

AtMostCapacityLive ==
    \A t \in TableNames : Cardinality(tables[t]) <= Capacity(t)

CreateWhenFull ==
    /\ IsCall
    /\ last'.op \in CreateOps
    /\ Cardinality(tables[CreateTable(last'.op)]) = Capacity(CreateTable(last'.op))

StockNamed == last'.op = "create_uniform" /\ IsStockUniform(last'.args[1][2])

\* C8 as stated: at most C ids are live, and every create_* made while C ids
\* are live raises the capacity fault, writes nothing and keeps the C ids live.
C8_CapacityFaultAlways ==
    /\ []AtMostCapacityLive
    /\ [][CreateWhenFull =>
            /\ fault' = "capacity"
            /\ m_contexts' = m_contexts
            /\ tables' = tables]_vars

\* C8 as amended: at most C ids are live, and every create_* made while C ids
\* are live fails, writes nothing and keeps the C ids live; the fault is the
\* capacity fault, except for create_uniform with a stock name, which fails
\* its stock-name precondition before the table is asked for an id.
C8_CapacityFault ==
    /\ []AtMostCapacityLive
    /\ [][CreateWhenFull =>
            /\ fault' = (IF StockNamed THEN "precondition" ELSE "capacity")
            /\ m_contexts' = m_contexts
            /\ tables' = tables]_vars

C8_Witness ==
    /\ fault = "capacity"
    /\ last.op = "create_vertex_buffer"
    /\ \A id \in Ids(CROWN_MAX_VERTEX_BUFFERS) : IdTableHas(tables.m_vertex_buffers, id)
    /\ Len(written.cmds) = 5

\* C9: once an id of a table has been destroyed through the producer API, a
\* create_* on that table (for create_uniform, with a valid name) succeeds
\* and returns an id of its own.
CreateAfterDestroy ==
    /\ IsCall
    /\ last'.op \in CreateOps
    /\ \E d \in destroyed : d[1] = CreateTable(last'.op)
    /\ last'.op = "create_uniform" => last'.args[1][2] = ShortName

C9_SlotReusedAfterDestroy ==
    [][CreateAfterDestroy =>
         /\ fault' = "none"
         /\ Cardinality(tables'[CreateTable(last'.op)])
              = Cardinality(tables[CreateTable(last'.op)]) + 1]_vars

\* C10: the stream the consumer starts to decode is what the producer wrote
\* since the last handoff followed by END; END occurs in it once, as its last
\* record; execute_commands stops at that END, the last field of the stream,
\* and the stream is empty once execute_commands is over.
C10_StreamShape ==
    /\ (cpc = "exec" /\ Draw.cread = 0) =>
           Draw.m_commands = Append(handed.cmds, END)
    /\ cpc = "exec" =>
           /\ Draw.cread < Len(Draw.m_commands)
           /\ \A i \in 1..Len(Draw.m_commands) :
                 (Draw.m_commands[i] = END) <=> (i = Len(Draw.m_commands))
    /\ cpc \in {"uniforms", "render", "post"} =>
           (Draw.m_commands = <<>> /\ Draw.cread = 0)

C10_StopsAtEnd ==
    (cpc = "exec" /\ cpc' # "exec") =>
        /\ Draw.cread + 1 = Len(Draw.m_commands)
        /\ Draw.m_commands[Draw.cread + 1] = END
        /\ cpc' = "uniforms"

C10_EndTerminated == []C10_StreamShape /\ [][C10_StopsAtEnd]_vars

C10_Witness ==
    /\ cpc = "exec"
    /\ Draw.cread = 0
    /\ posts >= 2
    /\ Len(Draw.m_commands) > 2

\* ------------------------------------------------------------------- C11
\* The backend calls made since the frame in hand was handed over.
FrameLog == SubSeq(backend, handed.base + 1, Len(backend))

IsPrefix(s, t) == Len(s) <= Len(t) /\ s = SubSeq(t, 1, Len(s))

\* The types of the variables execute_commands reads after each opcode, in
\* the order it reads them; len is the name length read by CREATE_UNIFORM.
ReadTypes(command, len) ==
    CASE command = "CREATE_VERTEX_BUFFER" ->
           <<"VertexBufferId", "size_t", "VertexFormat", "ptr">>
      [] command = "CREATE_DYNAMIC_VERTEX_BUFFER" ->
           <<"VertexBufferId", "size_t", "VertexFormat">>
      [] command = "UPDATE_VERTEX_BUFFER" ->
           <<"VertexBufferId", "size_t", "size_t", "ptr">>
      [] command = "DESTROY_VERTEX_BUFFER" -> <<"VertexBufferId">>
      [] command = "CREATE_INDEX_BUFFER" -> <<"IndexBufferId", "size_t", "ptr">>
      [] command = "CREATE_DYNAMIC_INDEX_BUFFER" -> <<"IndexBufferId", "size_t">>
      [] command = "UPDATE_INDEX_BUFFER" ->
           <<"IndexBufferId", "size_t", "size_t", "ptr">>
      [] command = "DESTROY_INDEX_BUFFER" -> <<"IndexBufferId">>
      [] command = "CREATE_TEXTURE" ->
           <<"TextureId", "uint32_t", "uint32_t", "PixelFormat", "ptr">>
      [] command = "UPDATE_TEXTURE" ->
           <<"TextureId", "uint32_t", "uint32_t", "uint32_t", "uint32_t", "ptr">>
      [] command = "DESTROY_TEXTURE" -> <<"TextureId">>
      [] command = "CREATE_SHADER" -> <<"ShaderId", "ShaderType", "ptr">>
      [] command = "DESTROY_SHADER" -> <<"ShaderId">>
      [] command = "CREATE_GPU_PROGRAM" -> <<"GPUProgramId", "ShaderId", "ShaderId">>
      [] command = "DESTROY_GPU_PROGRAM" -> <<"GPUProgramId">>
      [] command = "CREATE_UNIFORM" ->
           <<"UniformId", "size_t">> \o [i \in 1..len |-> "char"]
             \o <<"UniformType", "uint8_t">>
      [] command = "DESTROY_UNIFORM" -> <<"UniformId">>
      [] OTHER -> <<>>

\* The record at the read cursor was written with the types, in the order,
\* that execute_commands reads for its opcode.
TypesMatch ==
    LET cmds == Draw.m_commands
        p == Draw.cread + 1
        command == Field(cmds, p)
        len == IF command = "CREATE_UNIFORM" THEN Field(cmds, p + 2) ELSE 0
        types == <<"CommandType">> \o ReadTypes(command, len)
    IN  /\ p + Len(types) - 1 <= Len(cmds)
        /\ \A i \in 1..Len(types) : cmds[p + i - 1][1] = types[i]

\* C11: round trip of the command protocol. While the consumer decodes a
\* frame, each record it reads carries the field types it reads for that
\* opcode, and the backend calls it has made are, in order, the calls the
\* producer's create/update/destroy calls of that frame asked for, each with
\* the id the call returned and exactly the operands it was passed; when the
\* command stream is exhausted, none is missing.
C11_RoundTrip ==
    /\ cpc = "exec" => TypesMatch /\ IsPrefix(FrameLog, handed.calls)
    /\ (cpc = "uniforms" /\ Draw.kread = 0) => FrameLog = handed.calls

\* A frame of three calls on one vertex buffer has been decoded.
C11_Witness ==
    /\ cpc = "uniforms"
    /\ FrameLog = << <<"create_vertex_buffer_impl", 1, 13, "P3", 7>>,
                     <<"update_vertex_buffer_impl", 1, 5, 13, 7>>,
                     <<"destroy_vertex_buffer_impl", 1>> >>

\* ------------------------------------------------------------------- C12
\* n calls of render_impl.
Renders(n) == [i \in 1..n |-> <<"render_impl">>]

\* init() and then nothing but frame() calls, the last of which has returned.
OnlyFrames == ncalls = 0 /\ shutdowns = 0 /\ ppc = "idle"

\* C12: after init(), N calls of frame() with no submission call in between
\* make exactly N handoffs: once the last has returned, the consumer has
\* completed as many iterations as the producer posted (init()'s own frame and
\* the N), each ran render_impl once and no create/update/destroy backend
\* operation, and both contexts hold no command and no constant.
C12_EmptyFrames ==
    OnlyFrames =>
        /\ posts = completes
        /\ m_render_wait = 0 /\ m_main_wait = 0
        /\ backend = << <<"init_impl">> >> \o Renders(posts)
        /\ \A i \in {0, 1} : /\ m_contexts[i].m_commands = <<>>
                              /\ m_contexts[i].m_constants = <<>>

\* init() and one empty frame() have returned.
C12_Witness == OnlyFrames /\ caller = "frame" /\ posts = 2 /\ completes = 2

\* ------------------------------------------------------------------- C13
\* The step is a create_uniform call with a user name of length n, made while
\* the uniform table has a free slot.
CreateUniformOfLength(n) ==
    /\ IsCall
    /\ last'.op = "create_uniform"
    /\ ~IsStockUniform(last'.args[1][2])
    /\ Len(last'.args[1][2]) = n
    /\ ~IdTableFull(tables.m_uniforms, CROWN_MAX_UNIFORMS)

\* The call encoded one CREATE_UNIFORM record and raised no fault.
EncodedCreateUniform ==
    /\ fault' = "none"
    /\ Len(AppendedCmds) > 0
    /\ AppendedCmds[1] = Cmd("CREATE_UNIFORM")

\* C13: create_uniform with a user name of length exactly
\* CROWN_MAX_UNIFORM_NAME_LENGTH succeeds and encodes a CREATE_UNIFORM record;
\* with a name one character longer it fails the precondition check and
\* encodes nothing.
C13_NameLengthBoundary ==
    [][/\ CreateUniformOfLength(CROWN_MAX_UNIFORM_NAME_LENGTH)
          => EncodedCreateUniform
       /\ CreateUniformOfLength(CROWN_MAX_UNIFORM_NAME_LENGTH + 1)
          => fault' = "precondition" /\ AppendedCmds = <<>>]_vars

\* ------------------------------------------------------------------- C14
\* C14: the producer and the consumer are at most one frame out of phase: the
\* frames handed off (frame() calls that posted m_render_wait) minus the frames
\* completed (render_all iterations that posted m_main_wait) is 0 or 1.
C14_OneFrameOutOfPhase == posts - completes \in {0, 1}

\* The second frame is handed off and not completed; the first is completed.
C14_Witness == posts = 2 /\ completes = 1 /\ cpc = "render"

\* ------------------------------------------------------------------- C15
\* The consumer is executing a frame: decoding commands, applying constants
\* or about to run render_impl.
ConsumerExecuting == cpc \in {"exec", "uniforms", "render"}

\* C15: simulation and rendering overlap: while the consumer is executing
\* frame k, the producer is not blocked in frame() and can issue the submission
\* calls of frame k+1.
C15_Overlap == ConsumerExecuting => ppc # "frame_wait"

\* ------------------------------------------------------------------- C16
\* An END record is in a stream of the context.
Ended(ctx) ==
    \/ \E i \in 1..Len(ctx.m_commands) : ctx.m_commands[i] = END
    \/ \E i \in 1..Len(ctx.m_constants) : ctx.m_constants[i] = ConstEND

\* C16: swap_contexts runs only while both threads are quiesced at the
\* handoff: from before it starts until after it is done the producer is
\* blocked in frame() on m_main_wait, so m_submit changes only while no
\* submission call can run, and wherever the producer can write, the submit
\* context holds no END: it is never written between its END and its clear.
C16_SwapQuiesced ==
    /\ [][m_submit' # m_submit =>
            /\ ppc = "frame_wait" /\ ppc' = "frame_wait"
            /\ m_main_wait = 0 /\ m_main_wait' = 0
            /\ m_render_wait = 0
            /\ Ended(m_contexts'[m_draw'])]_vars
    /\ [](ProducerWrites => ~Ended(Submit))

\* After two swaps the producer has written to the context it wrote first.
C16_Witness ==
    /\ ppc = "idle"
    /\ m_submit = 0
    /\ posts = 2
    /\ Submit.m_commands # <<>>

\* ------------------------------------------------------------------- C17
\* The order of the consumer's steps: render_thread's loop and render_all.
ConsumerOrder ==
    {<<"unstarted", "loop">>, <<"loop", "wait">>, <<"loop", "exited">>,
     <<"wait", "swap">>, <<"swap", "exec">>, <<"exec", "uniforms">>,
     <<"uniforms", "render">>, <<"render", "post">>, <<"post", "loop">>}

\* The render_impl call of the iteration, if the dispatcher is ready.
RenderCall == IF m_is_initialized THEN << <<"render_impl">> >> ELSE <<>>

\* C17: each consumer iteration runs wait, swap, execute_commands,
\* update_uniforms, render_impl, post in this order; the backend calls of the
\* iteration are all the frame's commands, then all the frame's uniform
\* updates in the order they were set (the constant stream is then cleared),
\* then render_impl: every uniform update of a frame is applied after the
\* frame's commands and before its render_impl.
C17_IterationOrder ==
    /\ [][cpc' # cpc => <<cpc, cpc'>> \in ConsumerOrder]_vars
    /\ [](cpc = "swap" => FrameLog = <<>>)
    /\ [](cpc = "uniforms" =>
            /\ Draw.m_commands = <<>>
            /\ FrameLog = handed.calls
                           \o SubSeq(handed.uniforms, 1, Draw.kread \div 4))
    /\ [](cpc = "render" =>
            /\ Draw.m_constants = <<>>
            /\ FrameLog = handed.calls \o handed.uniforms)
    /\ [](cpc = "post" =>
            FrameLog = handed.calls \o handed.uniforms \o RenderCall)

\* An iteration has run a command, then a uniform update, then render_impl.
C17_Witness ==
    /\ cpc = "post"
    /\ handed.calls # <<>>
    /\ handed.uniforms # <<>>
    /\ FrameLog = handed.calls \o handed.uniforms \o << <<"render_impl">> >>

\* ------------------------------------------------------------------- C18
\* The backend call was made before position i of the log.
Before(call, i) == \E j \in 1..(i - 1) : backend[j] = call

\* Iterations completed in which SHUTDOWN_RENDERER was executed: 0 or 1.
ShutdownIterations == IF Before(<<"shutdown_impl">>, Len(backend) + 1) THEN 1 ELSE 0

\* C18: render_impl is called exactly once in each consumer iteration that
\* ends its command execution with the dispatcher ready, as the last backend
\* call of the iteration, and in no other: never before init_impl has run and
\* never in or after the iteration that executed SHUTDOWN_RENDERER.
C18_RenderOncePerReadyIteration ==
    /\ \A i \in 1..Len(backend) :
          backend[i] = <<"render_impl">> =>
              /\ Before(<<"init_impl">>, i)
              /\ ~Before(<<"shutdown_impl">>, i)
    /\ cpc \in {"swap", "exec", "uniforms", "render"} =>
          Count(FrameLog, <<"render_impl">>) = 0
    /\ cpc = "post" =>
          Count(FrameLog, <<"render_impl">>) = (IF m_is_initialized THEN 1 ELSE 0)
    /\ cpc \in {"loop", "wait", "exited"} =>
          Count(backend, <<"render_impl">>) = completes - ShutdownIterations

\* init(), a frame() and shutdown() have run: three iterations, two render
\* passes.
C18_Witness ==
    /\ cpc = "exited"
    /\ completes = 3
    /\ Count(backend, <<"render_impl">>) = 2
    /\ backend[Len(backend)] = <<"shutdown_impl">>

\* ------------------------------------------------------------------- C19
\* execute_commands on any stream: the consumer is about to decode a draw
\* command stream of up to MaxRecords records, each a valid record or a record
\* whose opcode is outside CommandType, followed by END.
MaxRecords == 3

Records ==
    { << Cmd("UNKNOWN") >>,
      << Cmd("DESTROY_VERTEX_BUFFER"), <<"VertexBufferId", 1>> >>,
      << Cmd("CREATE_DYNAMIC_INDEX_BUFFER"), <<"IndexBufferId", 1>>,
         <<"size_t", 13>> >> }

RECURSIVE Flatten(_)
Flatten(records) ==
    IF records = <<>> THEN <<>> ELSE Head(records) \o Flatten(Tail(records))

Streams == {Flatten(records) : records \in UNION {[1..n -> Records] : n \in 0..MaxRecords}}

\* The second frame after init(), handed over and swapped in.
DecodeInit ==
    /\ ppc = "frame_wait"
    /\ caller = "frame"
    /\ cpc = "exec"
    /\ m_render_wait = 0
    /\ m_main_wait = 0
    /\ m_submit = 0
    /\ m_draw = 1
    /\ \E stream \in Streams :
         /\ m_contexts = [i \in {0, 1} |->
                            IF i = 0 THEN EmptyContext
                            ELSE [EmptyContext EXCEPT
                                    !.m_commands = Append(stream, END),
                                    !.m_constants = <<ConstEND>>]]
         /\ handed = [NoStreams EXCEPT !.cmds = stream, !.base = 2]
    /\ tables = [m_vertex_buffers |-> {}, m_index_buffers |-> {},
                 m_textures |-> {}, m_shaders |-> {}, m_gpu_programs |-> {},
                 m_uniforms |-> {}, m_render_targets |-> {}]
    /\ m_is_initialized = TRUE
    /\ m_should_run = TRUE
    /\ backend = << <<"init_impl">>, <<"render_impl">> >>
    /\ fault = "none"
    /\ written = NoStreams
    /\ last = [op |-> "none", args |-> <<>>]
    /\ destroyed = {}
    /\ ncalls = 0
    /\ posts = 2
    /\ completes = 1
    /\ shutdowns = 0

\* The rest of the render_all iteration.
DecodeNext ==
    \/ ConsExec
    \/ ConsUniforms
    \/ ConsRender
    \/ ConsPost

DecodeSpec == DecodeInit /\ [][DecodeNext]_vars

\* The backend calls of the records from field p up to the first record whose
\* opcode is unknown, or up to END.
RECURSIVE UpToUnknown(_, _)
UpToUnknown(cmds, p) ==
    LET d == Decode(cmds, p)
    IN  IF d.kind \in {"unknown", "end"} THEN <<>>
        ELSE << d.call >> \o UpToUnknown(cmds, p + d.n)

\* A record from field p on has an unknown opcode.
RECURSIVE HasUnknown(_, _)
HasUnknown(cmds, p) ==
    LET d == Decode(cmds, p)
    IN  IF p > Len(cmds) THEN FALSE
        ELSE d.kind = "unknown" \/ HasUnknown(cmds, p + d.n)

AtUnknown == cpc = "exec" /\ Decode(Draw.m_commands, Draw.cread + 1).kind = "unknown"

\* C19: when execute_commands reads an opcode outside CommandType it raises
\* the protocol fault and stops there: the step makes no backend call, nothing
\* runs after the fault, and the backend calls of the iteration are those of
\* the records before the unknown one and no other (no later record, no
\* uniform update, no render_impl).
C19_UnknownOpcodeAborts ==
    /\ [][AtUnknown => fault' = "protocol" /\ backend' = backend]_vars
    /\ [][fault # "protocol"]_vars
    /\ [](HasUnknown(Append(handed.cmds, END), 1) =>
            /\ cpc = "exec"
            /\ IsPrefix(FrameLog, UpToUnknown(Append(handed.cmds, END), 1)))
    /\ [](fault = "protocol" => FrameLog = UpToUnknown(Append(handed.cmds, END), 1))

\* The fault was raised after one record was executed, with a record still
\* in the stream after the unknown one.
C19_Witness ==
    /\ fault = "protocol"
    /\ Len(FrameLog) = 1
    /\ Draw.cread + 1 < Len(Draw.m_commands)

\* ------------------------------------------------------------------- C20
\* The step is the return of a frame() call: m_main_wait.wait() is passed.
FrameReturns == ppc = "frame_wait" /\ ppc' # "frame_wait"

\* C20: frame isolation. When frame() returns, the backend calls made since
\* the frame was handed over are one call per command record and one per
\* constant record written before the frame() call, in order, followed by
\* the render pass if the dispatcher is ready: none dropped, none twice, none
\* of another frame; the context that is now the submit context has an empty
\* command stream and an empty constant stream; and the backend is called
\* only between the hand-over and the return.
C20_FrameIsolation ==
    /\ [][FrameReturns =>
            /\ FrameLog' = handed.calls \o handed.uniforms \o RenderCall
            /\ Len(handed.calls) + Len(handed.uniforms) + Len(RenderCall)
                 = Len(backend) - handed.base
            /\ m_contexts'[m_submit'].m_commands = <<>>
            /\ m_contexts'[m_submit'].m_constants = <<>>
            /\ m_contexts'[m_submit'].cread = 0
            /\ m_contexts'[m_submit'].kread = 0]_vars
    /\ [][backend' # backend => ppc = "frame_wait" /\ ppc' = "frame_wait"]_vars

\* A frame() that handed over a command and a constant has returned.
C20_Witness ==
    /\ ppc = "idle"
    /\ caller = "frame"
    /\ written = NoStreams
    /\ handed.calls # <<>>
    /\ handed.uniforms # <<>>
    /\ Len(backend) = handed.base + 3

\* ------------------------------------------------------------------- C21
\* A create/update/destroy *_impl call or an update_uniform_impl call.
ResourceCall(call) == call[1] \notin {"init_impl", "shutdown_impl", "render_impl"}

\* C21: with init() the first call and shutdown() the last, every
\* create/update/destroy *_impl operation and every update_uniform_impl is
\* invoked only while the dispatcher is ready: after init_impl has run and
\* before shutdown_impl runs.
C21_ImplOnlyWhileReady ==
    \A i \in 1..Len(backend) :
        ResourceCall(backend[i]) =>
            /\ Before(<<"init_impl">>, i)
            /\ ~Before(<<"shutdown_impl">>, i)

\* ------------------------------------------------------------------- C22
\* The step is a create_uniform call that failed a precondition: its name is
\* a stock uniform name, or is too long.
CreateUniformFailed ==
    /\ IsCall
    /\ last'.op = "create_uniform"
    /\ fault' = "precondition"

\* C22: a create_uniform call that fails a precondition leaves the renderer
\* unchanged: no uniform id is allocated (as many uniform ids are live as
\* before the call) and nothing is appended to the submit command stream.
C22_FailedCreateUniformNoEffect ==
    [][CreateUniformFailed =>
         /\ tables'.m_uniforms = tables.m_uniforms
         /\ AppendedCmds = <<>>
         /\ m_contexts' = m_contexts]_vars

\* ------------------------------------------------------------------- C23
\* execute_commands is about to decode a CREATE_UNIFORM record.
AtCreateUniform ==
    /\ cpc = "exec"
    /\ Field(Draw.m_commands, Draw.cread + 1) = "CREATE_UNIFORM"

\* The len field of the record at the read cursor.
DecodedLen == Field(Draw.m_commands, Draw.cread + 3)

\* C23: for every CREATE_UNIFORM record create_uniform encodes, the len that
\* execute_commands decodes is strictly less than
\* CROWN_MAX_UNIFORM_NAME_LENGTH: the len bytes of the name and the terminator
\* at name[len] are within char name[CROWN_MAX_UNIFORM_NAME_LENGTH], and the
\* name passed to create_uniform_impl has len characters.
C23_DecodedNameFits ==
    AtCreateUniform =>
        /\ DecodedLen < CROWN_MAX_UNIFORM_NAME_LENGTH
        /\ DecodedLen \in 0..(CROWN_MAX_UNIFORM_NAME_LENGTH - 1)
        /\ Len(Decode(Draw.m_commands, Draw.cread + 1).call[3]) = DecodedLen

\* A record with the longest name create_uniform accepts is about to be
\* decoded.
C23_Witness == AtCreateUniform /\ DecodedLen = CROWN_MAX_UNIFORM_NAME_LENGTH - 1

\* ------------------------------------------------------------------- C24
\* The step is a shutdown() call made while the renderer is not running.
ShutdownWhenStopped == shutdowns' = shutdowns + 1 /\ ~m_should_run

\* C24: shutdown() is a no-op when m_should_run is false: it writes no
\* SHUTDOWN_RENDERER, posts and waits on no semaphore, does not block or join
\* and returns at once; two shutdown() calls invoke shutdown_impl exactly once.
C24_SecondShutdownNoOp ==
    /\ [][ShutdownWhenStopped =>
            /\ ppc' = ppc
            /\ UNCHANGED <<caller, cpc, m_render_wait, m_main_wait, m_submit,
                           m_draw, m_contexts, tables, m_is_initialized,
                           m_should_run, backend, fault, written, handed, posts,
                           completes>>]_vars
    /\ [](Count(backend, <<"shutdown_impl">>) <= 1)
    /\ [](shutdowns >= 2 /\ ppc = "done" =>
            Count(backend, <<"shutdown_impl">>) = 1)

\* shutdown() was called twice and both calls have returned.
C24_Witness ==
    /\ shutdowns = 2
    /\ ppc = "done"
    /\ cpc = "exited"
    /\ Count(backend, <<"shutdown_impl">>) = 1

\* ------------------------------------------------------------------- C25
\* The step is a call of set_layer_render_target.
SetsRenderTarget == IsCall /\ last'.op = "set_layer_render_target"

\* C25: no producer call creates a render-target id, so the render-target
\* table is empty in every reachable state, and every call of
\* set_layer_render_target, for any id, fails the precondition and leaves
\* the submit context as it was.
C25_NoRenderTargets ==
    /\ [](tables.m_render_targets = {})
    /\ [](\A i \in {0, 1} : m_contexts[i].m_state.target = 0)
    /\ [][SetsRenderTarget => /\ fault' = "precondition"
                              /\ m_contexts' = m_contexts
                              /\ tables' = tables]_vars

\* A set_layer_render_target call has failed.
C25_Witness ==
    /\ last.op = "set_layer_render_target"
    /\ fault = "precondition"
    /\ ncalls >= 1

====
